---- MODULE Spec2Model ----
(***************************************************************************)
(* The mask-plane decoder of unagi (src/unagi/mask.py): the two release    *)
(* bit-plane tables, the BitMasks lookups and the Mask queries, as a state *)
(* machine: a caller constructs one BitMasks or one Mask object and then   *)
(* calls one of its methods; the call and what it returned or raised are   *)
(* recorded in the state.                                                  *)
(*                                                                         *)
(* Strings that the code transforms (plane names, selectors) are sequences *)
(* of one-character strings, so that strip() and upper() are computed.     *)
(* 0-based numpy positions are kept 0-based; TLA+ sequences are 1-based,   *)
(* so row i of a table is table[i + 1].                                    *)
(* TLC's integers are 32-bit signed: every pixel drawn is below 2^31, on   *)
(* which astype(uint32) changes nothing.                                   *)
(***************************************************************************)
EXTENDS Integers, Sequences, FiniteSets, TLC

VARIABLES pc, obj, call, result

vars == << pc, obj, call, result >>

-----------------------------------------------------------------------------
(* Bounds of the model.                                                    *)

\* a grid has 1..MaxRows rows and 1..MaxCols columns
MaxRows == 2
MaxCols == 2
\* a list of plane selectors has 0..MaxList items
MaxList == 2
\* a name selector carries 0..MaxPad whitespace characters on each side
MaxPad == 1

-----------------------------------------------------------------------------
(* Python values: what a call returns or raises.                           *)

None == [kind |-> "None"]
Return(v) == [kind |-> "return", val |-> v]
Raise(cls) == [kind |-> "raise", val |-> cls]
PyStr(chars) == [kind |-> "str", val |-> chars]
PyInt(n) == [kind |-> "int", val |-> n]
PyList(items) == [kind |-> "list", val |-> items]
PyTuple(items) == [kind |-> "tuple", val |-> items]

-----------------------------------------------------------------------------
(* The release tables: the rows as the source writes them, then the cast   *)
(* of np.array(..., dtype=[bits uint8, name <U18, meaning <U80,            *)
(* color <U12, value uint32]).                                             *)

S18A_ROWS ==
  <<
    [bits |-> 0, name |-> << "B", "A", "D" >>,
     meaning |-> "Bad pixel",
     color |-> "red", value |-> 2 ^ 0],
    [bits |-> 1, name |-> << "S", "A", "T" >>,
     meaning |-> "Source footprint includes saturated pixels",
     color |-> "tab:purple", value |-> 2 ^ 1],
    [bits |-> 2, name |-> << "I", "N", "T", "R", "P" >>,
     meaning |-> "Source footprint includes interpolated pixels",
     color |-> "tab:orange", value |-> 2 ^ 2],
    [bits |-> 3, name |-> << "C", "R" >>,
     meaning |-> "Source footprint includes suspected CR pixels",
     color |-> "tab:pink", value |-> 2 ^ 3],
    [bits |-> 4, name |-> << "E", "D", "G", "E" >>,
     meaning |-> "Source is close to the edge of the CCD",
     color |-> "tab:olive", value |-> 2 ^ 4],
    [bits |-> 5, name |-> << "D", "E", "T", "E", "C", "T", "E", "D" >>,
     meaning |-> "Pixel with detection above the threshold",
     color |-> "tab:blue", value |-> 2 ^ 5],
    [bits |-> 6, name |-> << "D", "E", "T", "E", "C", "T", "E", "D", "_", "N", "E", "G", "A", "T", "I", "V", "E" >>,
     meaning |-> "Pixel in footprint that is detected as a negative object",
     color |-> "gray", value |-> 2 ^ 6],
    [bits |-> 7, name |-> << "S", "U", "S", "P", "E", "C", "T" >>,
     meaning |-> "Source footprint includes suspect pixels",
     color |-> "orangered", value |-> 2 ^ 7],
    [bits |-> 8, name |-> << "N", "O", "_", "D", "A", "T", "A" >>,
     meaning |-> "No useful data",
     color |-> "black", value |-> 2 ^ 8],
    [bits |-> 9, name |-> << "B", "R", "I", "G", "H", "T", "_", "O", "B", "J", "E", "C", "T" >>,
     meaning |-> "Bright star mask",
     color |-> "tab:brown", value |-> 2 ^ 9],
    [bits |-> 10, name |-> << "C", "R", "O", "S", "S", "T", "A", "L", "K" >>,
     meaning |-> "Crosstalk",
     color |-> "rosybrown", value |-> 2 ^ 10],
    [bits |-> 11, name |-> << "N", "O", "T", "_", "D", "E", "B", "L", "E", "N", "D", "E", "D" >>,
     meaning |-> "Pixel in footprint that is too large to deblend",
     color |-> "teal", value |-> 2 ^ 11],
    [bits |-> 12, name |-> << "U", "N", "M", "A", "S", "K", "E", "D", "N", "A", "N" >>,
     meaning |-> "NaN pixels that are interpolated over",
     color |-> "darkgreen", value |-> 2 ^ 12],
    [bits |-> 13, name |-> << "R", "E", "J", "E", "C", "T", "E", "D" >>,
     meaning |-> "Rejected due to a mask other than EDGE, NO_DATA, or CLIPPED",
     color |-> "violet", value |-> 2 ^ 13],
    [bits |-> 14, name |-> << "C", "L", "I", "P", "P", "E", "D" >>,
     meaning |-> "Pixel that has been clipped",
     color |-> "crimson", value |-> 2 ^ 14],
    [bits |-> 15, name |-> << "S", "E", "N", "S", "O", "R", "_", "E", "D", "G", "E" >>,
     meaning |-> "Pixel close to the edge of CCD sensor",
     color |-> "tab:olive", value |-> 2 ^ 15],
    [bits |-> 16, name |-> << "I", "N", "E", "X", "A", "C", "T", "_", "P", "S", "F" >>,
     meaning |-> "PSF is not correct",
     color |-> "gold", value |-> 2 ^ 16]
  >>

PDR1_ROWS ==
  <<
    [bits |-> 0, name |-> << "B", "A", "D" >>,
     meaning |-> "Bad pixel",
     color |-> "red", value |-> 2 ^ 0],
    [bits |-> 1, name |-> << "S", "A", "T" >>,
     meaning |-> "Source footprint includes saturated pixels",
     color |-> "tab:purple", value |-> 2 ^ 1],
    [bits |-> 2, name |-> << "I", "N", "T", "R", "P" >>,
     meaning |-> "Source footprint includes interpolated pixels",
     color |-> "tab:orange", value |-> 2 ^ 2],
    [bits |-> 3, name |-> << "C", "R" >>,
     meaning |-> "Source footprint includes suspected CR pixels",
     color |-> "tab:pink", value |-> 2 ^ 3],
    [bits |-> 4, name |-> << "E", "D", "G", "E" >>,
     meaning |-> "Source is close to the edge of the CCD",
     color |-> "tab:olive", value |-> 2 ^ 4],
    [bits |-> 5, name |-> << "D", "E", "T", "E", "C", "T", "E", "D" >>,
     meaning |-> "Pixel with detection above the threshold",
     color |-> "tab:blue", value |-> 2 ^ 5],
    [bits |-> 6, name |-> << "D", "E", "T", "E", "C", "T", "E", "D", "_", "N", "E", "G", "A", "T", "I", "V", "E" >>,
     meaning |-> "Pixel in footprint that is detected as a negative object",
     color |-> "gray", value |-> 2 ^ 6],
    [bits |-> 7, name |-> << "S", "U", "S", "P", "E", "C", "T" >>,
     meaning |-> "Source footprint includes suspect pixels",
     color |-> "orangered", value |-> 2 ^ 7],
    [bits |-> 8, name |-> << "N", "O", "_", "D", "A", "T", "A" >>,
     meaning |-> "No useful data",
     color |-> "black", value |-> 2 ^ 8],
    [bits |-> 9, name |-> << "B", "R", "I", "G", "H", "T", "_", "O", "B", "J", "E", "C", "T" >>,
     meaning |-> "Bright star mask",
     color |-> "tab:brown", value |-> 2 ^ 9],
    [bits |-> 10, name |-> << "C", "R", "O", "S", "S", "T", "A", "L", "K" >>,
     meaning |-> "Crosstalk",
     color |-> "rosybrown", value |-> 2 ^ 10],
    [bits |-> 11, name |-> << "N", "O", "T", "_", "D", "E", "B", "L", "E", "N", "D", "E", "D" >>,
     meaning |-> "Pixel in footprint that is too large to deblend",
     color |-> "teal", value |-> 2 ^ 11],
    [bits |-> 12, name |-> << "U", "N", "M", "A", "S", "K", "E", "D", "N", "A", "N" >>,
     meaning |-> "NaN pixels that are interpolated over",
     color |-> "darkgreen", value |-> 2 ^ 12],
    [bits |-> 13, name |-> << "R", "E", "J", "E", "C", "T", "E", "D" >>,
     meaning |-> "Rejected due to a mask other than EDGE, NO_DATA, or CLIPPED",
     color |-> "violet", value |-> 2 ^ 13]
  >>

Truncate(s, n) == IF Len(s) > n THEN SubSeq(s, 1, n) ELSE s

\* a row stored under the structured dtype: integers keep their width,
\* a name keeps at most 18 characters (every value of the rows is below
\* 2^31, where the uint32 cast changes nothing)
StructuredRow(r) ==
  [bits |-> r.bits % 256, name |-> Truncate(r.name, 18),
   meaning |-> r.meaning, color |-> r.color, value |-> r.value]

\* S18A_BITMASKS with the value of SENSOR_EDGE (bit 15) written as that of
\* its neighbour CLIPPED
S18A_BITMASKS_slip ==
  [i \in 1..Len(S18A_ROWS) |->
     IF S18A_ROWS[i].bits = 15
     THEN [StructuredRow(S18A_ROWS[i]) EXCEPT !.value = 2 ^ 14]
     ELSE StructuredRow(S18A_ROWS[i])]

S18A_BITMASKS ==
  [i \in 1..Len(S18A_ROWS) |-> StructuredRow(S18A_ROWS[i])]

PDR1_BITMASKS ==
  [i \in 1..Len(PDR1_ROWS) |-> StructuredRow(PDR1_ROWS[i])]

-----------------------------------------------------------------------------
(* Integer bit operations, as numpy computes them on unsigned integers.    *)

RECURSIVE BitAnd(_, _)
BitAnd(a, b) ==
  IF a = 0 \/ b = 0 THEN 0
  ELSE (a % 2) * (b % 2) + 2 * BitAnd(a \div 2, b \div 2)

RECURSIVE BitOr(_, _)
BitOr(a, b) ==
  IF a = 0 THEN b
  ELSE IF b = 0 THEN a
  ELSE (IF a % 2 = 1 \/ b % 2 = 1 THEN 1 ELSE 0) + 2 * BitOr(a \div 2, b \div 2)

\* ndarray.astype(np.uint16 / np.uint32) of a non-negative integer
AsType(x, n_bits) == IF n_bits >= 31 THEN x ELSE x % (2 ^ n_bits)

-----------------------------------------------------------------------------
(* str.strip() and str.upper() on sequences of characters.                 *)

Whitespace == {" ", "\t", "\n"}

LowerCase ==
  << "a", "b", "c", "d", "e", "f", "g", "h", "i", "j", "k", "l", "m",
     "n", "o", "p", "q", "r", "s", "t", "u", "v", "w", "x", "y", "z" >>

UpperCase ==
  << "A", "B", "C", "D", "E", "F", "G", "H", "I", "J", "K", "L", "M",
     "N", "O", "P", "Q", "R", "S", "T", "U", "V", "W", "X", "Y", "Z" >>

UpperChar(c) ==
  IF \E i \in 1..Len(LowerCase) : LowerCase[i] = c
  THEN UpperCase[CHOOSE i \in 1..Len(LowerCase) : LowerCase[i] = c]
  ELSE c

LowerChar(c) ==
  IF \E i \in 1..Len(UpperCase) : UpperCase[i] = c
  THEN LowerCase[CHOOSE i \in 1..Len(UpperCase) : UpperCase[i] = c]
  ELSE c

StrUpper(s) == [i \in 1..Len(s) |-> UpperChar(s[i])]

StrStrip(s) ==
  LET kept == {i \in 1..Len(s) : s[i] \notin Whitespace}
  IN  IF kept = {} THEN << >>
      ELSE LET first == CHOOSE i \in kept : \A j \in kept : i <= j
               last == CHOOSE i \in kept : \A j \in kept : j <= i
           IN  SubSeq(s, first, last)

-----------------------------------------------------------------------------
(* class BitMasks                                                          *)

\* BitMasks_init falling back to the default release
BitMasks_init_fallback(data_release) ==
  IF data_release = "pdr1"
  THEN Return([cls |-> "BitMasks", bitmasks |-> PDR1_BITMASKS, n_bits |-> 16])
  ELSE Return([cls |-> "BitMasks", bitmasks |-> S18A_BITMASKS, n_bits |-> 32])

\* BitMasks.__init__: the table and integer width of the release, or
\* NotImplementedError
BitMasks_init(data_release) ==
  IF data_release = "s18a"
  THEN Return([cls |-> "BitMasks", bitmasks |-> S18A_BITMASKS, n_bits |-> 32])
  ELSE IF data_release = "pdr1"
  THEN Return([cls |-> "BitMasks", bitmasks |-> PDR1_BITMASKS, n_bits |-> 16])
  ELSE Raise("NotImplementedError")

\* BitMasks.n_mask
n_mask(self) == Len(self.bitmasks)

\* FirstWhere as np.argmax(flag): position 0 when the array holds nowhere
FirstWhere_argmax(flag) ==
  LET hits == {i \in DOMAIN flag : flag[i]}
  IN  IF hits = {} THEN Return(0)
      ELSE Return((CHOOSE i \in hits : \A j \in hits : i <= j) - 1)

\* arr[flag][0] and np.where(flag)[0][0]: the first position (0-based) at
\* which the boolean array holds, IndexError when it holds nowhere
FirstWhere(flag) ==
  LET hits == {i \in DOMAIN flag : flag[i]}
  IN  IF hits = {} THEN Raise("IndexError")
      ELSE Return((CHOOSE i \in hits : \A j \in hits : i <= j) - 1)

\* BitMasks.bits2name
bits2name(self, idx) ==
  LET flag == [i \in DOMAIN self.bitmasks |-> self.bitmasks[i].bits = idx]
      pos == FirstWhere(flag)
  IN  IF pos.kind = "raise" THEN pos
      ELSE Return(PyStr(self.bitmasks[pos.val + 1].name))

\* name2bits reading the 'value' field
name2bits_value(self, name) ==
  LET key == StrUpper(StrStrip(name))
      flag == [i \in DOMAIN self.bitmasks |-> self.bitmasks[i].name = key]
      pos == FirstWhere(flag)
  IN  IF pos.kind = "raise" THEN pos
      ELSE Return(PyInt(self.bitmasks[pos.val + 1].value))

\* BitMasks.name2bits
name2bits(self, name) ==
  LET key == StrUpper(StrStrip(name))
      flag == [i \in DOMAIN self.bitmasks |-> self.bitmasks[i].name = key]
      pos == FirstWhere(flag)
  IN  IF pos.kind = "raise" THEN pos
      ELSE Return(PyInt(self.bitmasks[pos.val + 1].bits))

\* get_index matching an integer against the 'value' field
get_index_by_value(self, name_or_bit) ==
  LET flag ==
        IF name_or_bit.kind = "str"
        THEN LET key == StrUpper(StrStrip(name_or_bit.val))
             IN  [i \in DOMAIN self.bitmasks |-> self.bitmasks[i].name = key]
        ELSE [i \in DOMAIN self.bitmasks |->
                self.bitmasks[i].value = name_or_bit.val]
  IN  FirstWhere(flag)

\* get_index without strip()
get_index_no_strip(self, name_or_bit) ==
  LET flag ==
        IF name_or_bit.kind = "str"
        THEN LET key == StrUpper(name_or_bit.val)
             IN  [i \in DOMAIN self.bitmasks |-> self.bitmasks[i].name = key]
        ELSE [i \in DOMAIN self.bitmasks |->
                self.bitmasks[i].bits = name_or_bit.val]
  IN  FirstWhere(flag)

\* BitMasks.get_index: name_or_bit is PyStr(chars) or PyInt(n)
get_index(self, name_or_bit) ==
  LET flag ==
        IF name_or_bit.kind = "str"
        THEN LET key == StrUpper(StrStrip(name_or_bit.val))
             IN  [i \in DOMAIN self.bitmasks |-> self.bitmasks[i].name = key]
        ELSE [i \in DOMAIN self.bitmasks |->
                self.bitmasks[i].bits = name_or_bit.val]
  IN  FirstWhere(flag)

\* BitMasks.get_color
get_color(self, name_or_bit) ==
  LET pos == get_index(self, name_or_bit)
  IN  IF pos.kind = "raise" THEN pos
      ELSE Return(self.bitmasks[pos.val + 1].color)

-----------------------------------------------------------------------------
(* numpy on 2-D arrays (a sequence of rows, each a sequence of integers)   *)
(* and on lists of them.                                                   *)

\* Mask.__init__ takes a 2-D array, and astype keeps its shape
MaskNDim == 2

\* arr & value, elementwise
GridAnd(arr, value) ==
  [i \in DOMAIN arr |-> [j \in DOMAIN arr[i] |-> BitAnd(arr[i][j], value)]]

\* (arr > 0).astype(np.uint8), elementwise
GridPositive(arr) ==
  [i \in DOMAIN arr |->
     [j \in DOMAIN arr[i] |-> IF arr[i][j] > 0 THEN 1 ELSE 0]]

\* arr.astype(np.uint16 / np.uint32), elementwise
GridAsType(arr, n_bits) ==
  [i \in DOMAIN arr |-> [j \in DOMAIN arr[i] |-> AsType(arr[i][j], n_bits)]]

\* elementwise a | b of two arrays of one shape
GridOr(a, b) ==
  [i \in DOMAIN a |-> [j \in DOMAIN a[i] |-> BitOr(a[i][j], b[i][j])]]

RECURSIVE FoldGridOr(_)
FoldGridOr(grids) ==
  IF Len(grids) = 1 THEN grids[1]
  ELSE GridOr(grids[1], FoldGridOr(Tail(grids)))

\* bitwise_or_reduce_list answering an empty list with the identity of |
bitwise_or_reduce_list_identity(grids) ==
  IF Len(grids) = 0 THEN Return(0)
  ELSE Return(FoldGridOr(grids))

\* bitwise_or_reduce_list reducing with & instead of |
bitwise_and_reduce_list(grids) ==
  LET RECURSIVE FoldGridAnd(_)
      FoldGridAnd(gs) ==
        IF Len(gs) = 1 THEN gs[1]
        ELSE LET rest == FoldGridAnd(Tail(gs))
             IN  [i \in DOMAIN gs[1] |-> [j \in DOMAIN gs[1][i] |->
                    BitAnd(gs[1][i][j], rest[i][j])]]
  IN  IF Len(grids) = 0 THEN Raise("TypeError")
      ELSE Return(FoldGridAnd(grids))

\* np.bitwise_or.reduce(list of 2-D arrays): along axis 0 of the stacked
\* array. An empty list is an empty float64 array, for which bitwise_or has
\* no loop: TypeError.
bitwise_or_reduce_list(grids) ==
  IF Len(grids) = 0 THEN Raise("TypeError")
  ELSE Return(FoldGridOr(grids))

\* np.delete(arr, obj, axis) of a 2-D array: the axis is checked against the
\* number of dimensions first (AxisError), then the positions against the
\* length of the axis (IndexError)
np_delete(arr, positions, axis) ==
  IF axis >= MaskNDim \/ axis < 0 - MaskNDim THEN Raise("AxisError")
  ELSE LET ax == IF axis < 0 THEN axis + MaskNDim ELSE axis
           n == IF ax = 0 THEN Len(arr) ELSE Len(arr[1])
           norm(p) == IF p < 0 THEN p + n ELSE p
           gone == {norm(p) + 1 : p \in positions}
           Keep(s) ==
             LET RECURSIVE K(_)
                 K(i) == IF i > Len(s) THEN << >>
                         ELSE IF i \in gone THEN K(i + 1)
                         ELSE << s[i] >> \o K(i + 1)
             IN  K(1)
       IN  IF \E p \in positions : p >= n \/ p < 0 - n
           THEN Raise("IndexError")
           ELSE IF ax = 0 THEN Return(Keep(arr))
           ELSE Return([i \in DOMAIN arr |-> Keep(arr[i])])

RECURSIVE FoldOr(_)
FoldOr(s) == IF Len(s) = 0 THEN 0 ELSE BitOr(s[1], FoldOr(Tail(s)))

\* np.bitwise_or.reduce(arr, axis) of a 2-D array: a 1-D array
bitwise_or_reduce_axis(arr, axis) ==
  IF axis >= MaskNDim \/ axis < 0 - MaskNDim THEN Raise("AxisError")
  ELSE IF axis = 1 \/ axis = 0 - 1
  THEN Return([i \in DOMAIN arr |-> FoldOr(arr[i])])
  ELSE Return([j \in DOMAIN arr[1] |->
                 FoldOr([i \in DOMAIN arr |-> arr[i][j]])])

-----------------------------------------------------------------------------
(* class Mask                                                              *)

\* Mask.__init__: the BitMasks of the release (its error propagates), the
\* table, and the grid cast to the table's integer type
Mask_init(mask, data_release) ==
  LET bm == BitMasks_init(data_release)
  IN  IF bm.kind = "raise" THEN bm
      ELSE Return([cls |-> "Mask",
                   data_release |-> data_release,
                   bitmasks |-> bm.val,
                   library |-> bm.val.bitmasks,
                   n_mask |-> n_mask(bm.val),
                   type |-> bm.val.n_bits,
                   masks |-> GridAsType(mask, bm.val.n_bits)])

\* ExtractOne with the comparison bound tighter than the mask:
\* self.masks & (value > 0)
ExtractOne_precedence(self, b, show) ==
  LET pos == get_index(self.bitmasks, b)
  IN  IF pos.kind = "raise" THEN pos
      ELSE LET value == self.library[pos.val + 1].value
           IN  IF show
               THEN Return(GridAnd(self.masks, value))
               ELSE Return(GridAnd(self.masks, IF value > 0 THEN 1 ELSE 0))

\* self.masks & self.library[get_index(b)]['value'], then (> 0).astype(uint8)
\* unless show
ExtractOne(self, b, show) ==
  LET pos == get_index(self.bitmasks, b)
  IN  IF pos.kind = "raise" THEN pos
      ELSE LET value == self.library[pos.val + 1].value
           IN  IF show
               THEN Return(GridAnd(self.masks, value))
               ELSE Return(GridPositive(GridAnd(self.masks, value)))

\* ExtractEach building the list back to front
RECURSIVE ExtractEach_reversed(_, _, _)
ExtractEach_reversed(self, items, show) ==
  IF Len(items) = 0 THEN Return(<< >>)
  ELSE LET head == ExtractOne(self, items[1], show)
       IN  IF head.kind = "raise" THEN head
           ELSE LET rest == ExtractEach_reversed(self, Tail(items), show)
                IN  IF rest.kind = "raise" THEN rest
                    ELSE Return(rest.val \o << head.val >>)

\* the list comprehension [extract one b for b in bit_list]: the first
\* selector that fails raises
RECURSIVE ExtractEach(_, _, _)
ExtractEach(self, items, show) ==
  IF Len(items) = 0 THEN Return(<< >>)
  ELSE LET head == ExtractOne(self, items[1], show)
       IN  IF head.kind = "raise" THEN head
           ELSE LET rest == ExtractEach(self, Tail(items), show)
                IN  IF rest.kind = "raise" THEN rest
                    ELSE Return(<< head.val >> \o rest.val)

\* Mask.extract
extract(self, bit_list, show) ==
  IF bit_list.kind # "list" THEN ExtractOne(self, bit_list, show)
  ELSE ExtractEach(self, bit_list.val, show)

\* combine taking a tuple for a list
combine_tuple_ok(self, name_or_bit_list) ==
  IF name_or_bit_list.kind \notin {"list", "tuple"} THEN Raise("TypeError")
  ELSE IF Len(name_or_bit_list.val) = 1
  THEN extract(self, name_or_bit_list.val[1], FALSE)
  ELSE LET each == ExtractEach(self, name_or_bit_list.val, FALSE)
       IN  IF each.kind = "raise" THEN each
           ELSE bitwise_or_reduce_list(each.val)

\* combine whose one-element case keeps the raw bit pattern
combine_single_raw(self, name_or_bit_list) ==
  IF name_or_bit_list.kind # "list" THEN Raise("TypeError")
  ELSE IF Len(name_or_bit_list.val) = 1
  THEN extract(self, name_or_bit_list.val[1], TRUE)
  ELSE LET each == ExtractEach(self, name_or_bit_list.val, FALSE)
       IN  IF each.kind = "raise" THEN each
           ELSE bitwise_or_reduce_list(each.val)

\* Mask.get_cmap: the two colours of the ListedColormap
get_cmap(self, name_or_bit) ==
  LET color == get_color(self.bitmasks, name_or_bit)
  IN  IF color.kind = "raise" THEN color
      ELSE Return(PyList(<< "white", color.val >>))

\* the masks setter: the array is stored as it is given
set_masks(self, mask_array) == [self EXCEPT !.masks = mask_array]

\* a query that hands out the stored array itself and so overwrites it
StoredAfter_alias(self, r) ==
  IF r.kind = "return" /\ r.val \in Seq(Seq(Int)) THEN r.val ELSE self.masks

\* a query that works in place: self.masks[self.masks > 0] = 1
StoredAfter_inplace(self, r) ==
  IF r.kind = "return" THEN GridPositive(self.masks) ELSE self.masks

\* the array self._masks refers to after extract, enlarge, combine, clean
\* or get_cmap ended with outcome r: none of them assigns an attribute or
\* an element; `self.masks & value`, the comparison, astype, np.delete and
\* gaussian_filter each allocate their result
StoredAfter(self, r) == self.masks

\* scipy.ndimage.gaussian_filter, as enlarge calls it (mode 'reflect',
\* truncate 4.0).  sigma is given in tenths.  The kernel of a sigma has
\* int(4 * sigma + 0.5) taps on each side; its weights exp(-k^2 / 2 sigma^2)
\* are kept to four decimals, as numerators over their sum: the centre
\* weight first.
GaussianKernel(sigma10) ==
  IF sigma10 = 5 THEN << 7866, 1065, 3 >>
  ELSE IF sigma10 = 10 THEN << 3989, 2420, 540, 44, 1 >>
  ELSE << 1995, 1760, 1210, 648, 270, 88, 22, 4, 1 >>

\* position i (0-based, any integer) of a line of n cells extended by
\* reflection: d c b a | a b c d | d c b a
Reflect(i, n) ==
  LET j == i % (2 * n) IN IF j < n THEN j ELSE 2 * n - 1 - j

\* correlate1d of one line with the symmetric kernel, the sum cast to the
\* unsigned integer type of the input
Correlate1d(line, half) ==
  LET n == Len(line)
      lw == Len(half) - 1
      RECURSIVE Total(_)
      Total(k) == IF k > lw THEN 0
                  ELSE (IF k = 0 THEN 1 ELSE 2) * half[k + 1] + Total(k + 1)
      RECURSIVE Acc(_, _)
      Acc(i, k) ==
        IF k > lw THEN 0
        ELSE half[(IF k < 0 THEN 0 - k ELSE k) + 1]
               * line[Reflect(i - 1 + k, n) + 1]
             + Acc(i, k + 1)
  IN  [i \in 1..n |-> Acc(i, 0 - lw) \div Total(0)]

\* gaussian_filter of a 2-D array: an axis whose sigma is not above 1e-15
\* is skipped (the array is copied); otherwise axis 0 is filtered, then
\* axis 1, each pass written in the integer type of the input
gaussian_filter(arr, sigma10) ==
  IF sigma10 <= 0 THEN arr
  ELSE LET half == GaussianKernel(sigma10)
           cols == [j \in 1..Len(arr[1]) |->
                      Correlate1d([i \in 1..Len(arr) |-> arr[i][j]], half)]
           pass0 == [i \in 1..Len(arr) |->
                       [j \in 1..Len(arr[1]) |-> cols[j][i]]]
       IN  [i \in 1..Len(arr) |-> Correlate1d(pass0[i], half)]

\* enlarge with the comparison turned round
enlarge_below(self, name_or_bit, sigma10, threshold) ==
  LET raw == extract(self, name_or_bit, TRUE)
  IN  IF raw.kind = "raise" THEN raw
      ELSE LET smooth == gaussian_filter(raw.val, sigma10)
           IN  Return([i \in DOMAIN smooth |-> [j \in DOMAIN smooth[i] |->
                  IF smooth[i][j] * threshold.den <= threshold.num
                  THEN 1 ELSE 0]])

\* Mask.enlarge: (gaussian_filter(extract(show=True), sigma) >= threshold)
\* as uint8; the threshold is the fraction num / den, den > 0
enlarge(self, name_or_bit, sigma10, threshold) ==
  LET raw == extract(self, name_or_bit, TRUE)
  IN  IF raw.kind = "raise" THEN raw
      ELSE LET smooth == gaussian_filter(raw.val, sigma10)
           IN  Return([i \in DOMAIN smooth |-> [j \in DOMAIN smooth[i] |->
                  IF smooth[i][j] * threshold.den >= threshold.num
                  THEN 1 ELSE 0]])

\* Mask.combine
combine(self, name_or_bit_list) ==
  IF name_or_bit_list.kind # "list" THEN Raise("TypeError")
  ELSE IF Len(name_or_bit_list.val) = 1
  THEN extract(self, name_or_bit_list.val[1], FALSE)
  ELSE LET each == ExtractEach(self, name_or_bit_list.val, FALSE)
       IN  IF each.kind = "raise" THEN each
           ELSE bitwise_or_reduce_list(each.val)

\* [get_index(nb) for nb in name_or_bit_list]
RECURSIVE IndexEach(_, _)
IndexEach(bm, items) ==
  IF Len(items) = 0 THEN Return({})
  ELSE LET head == get_index(bm, items[1])
       IN  IF head.kind = "raise" THEN head
           ELSE LET rest == IndexEach(bm, Tail(items))
                IN  IF rest.kind = "raise" THEN rest
                    ELSE Return({head.val} \cup rest.val)

\* Mask.clean: the positions are resolved first (arguments are evaluated
\* before np.delete is called), then np.delete and the reduction, both along
\* axis 2 of self.masks
clean(self, name_or_bit_list) ==
  LET positions ==
        IF name_or_bit_list.kind # "list"
        THEN LET pos == get_index(self.bitmasks, name_or_bit_list)
             IN  IF pos.kind = "raise" THEN pos ELSE Return({pos.val})
        ELSE IndexEach(self.bitmasks, name_or_bit_list.val)
  IN  IF positions.kind = "raise" THEN positions
      ELSE LET kept == np_delete(self.masks, positions.val, 2)
           IN  IF kept.kind = "raise" THEN kept
               ELSE bitwise_or_reduce_axis(kept.val, 2)

-----------------------------------------------------------------------------
(* The inputs the caller draws from.                                       *)

\* release identifiers: the two supported ones and some that are not
Releases == {"s18a", "pdr1", "S18A", "pdr2", "s18a_wide", ""}

\* pixel values: no bit, the bits of the first planes, bit 13 (the last
\* plane of pdr1), bit 14 (a plane of s18a only, inside uint16), bit 16 (the
\* last plane of s18a, outside uint16), bit 17 (in no table), and the
\* remaining bits of the tables (3, 15, and 5..12 together)
PixelPool ==
  << 0, 1, 3, 6, 2 ^ 13 + 2 ^ 4, 2 ^ 14 + 2 ^ 1, 2 ^ 16 + 2 ^ 0,
     2 ^ 17 + 2 ^ 16 + 2 ^ 2, 2 ^ 15 + 2 ^ 3,
     2 ^ 12 + 2 ^ 11 + 2 ^ 10 + 2 ^ 9 + 2 ^ 8 + 2 ^ 7 + 2 ^ 6 + 2 ^ 5 >>

\* the h x w grid whose pixels, in row-major order, walk the pool from
\* position start in steps of stride (stride 0: a constant grid)
GridOf(h, w, start, stride) ==
  [i \in 1..h |-> [j \in 1..w |->
     PixelPool[((start + stride * ((i - 1) * w + (j - 1)))
                  % Len(PixelPool)) + 1]]]

Grids ==
  {GridOf(h, w, start, stride) :
     h \in 1..MaxRows, w \in 1..MaxCols,
     start \in 0..(Len(PixelPool) - 1), stride \in {0, 1}}

\* every plane name of either table
PlaneNames ==
  {S18A_BITMASKS[i].name : i \in DOMAIN S18A_BITMASKS}
    \cup {PDR1_BITMASKS[i].name : i \in DOMAIN PDR1_BITMASKS}

\* re-casings of a name
StrLower(s) == [i \in 1..Len(s) |-> LowerChar(s[i])]
Capitalize(s) == [i \in 1..Len(s) |-> IF i = 1 THEN s[i] ELSE LowerChar(s[i])]
Alternate(s) ==
  [i \in 1..Len(s) |-> IF i % 2 = 1 THEN LowerChar(s[i]) ELSE s[i]]
Recasings(s) == {s, StrLower(s), Capitalize(s), Alternate(s)}

\* runs of 0..MaxPad whitespace characters
Pads == UNION {[1..n -> Whitespace] : n \in 0..MaxPad}

\* every re-casing of every plane name, with whitespace around it
NameVariants ==
  {l \o c \o r : l \in Pads, r \in Pads,
                 c \in UNION {Recasings(n) : n \in PlaneNames}}

\* names that match no plane: a prefix, a substring, an extension, a name
\* with whitespace inside, the empty name, a stranger
BadNames ==
  { << "S", "A" >>, << "E", "T", "E", "C", "T" >>,
    << "S", "A", "T", "S" >>, << "N", "O", " ", "D", "A", "T", "A" >>,
    << >>, << "1" >> }

\* bit indices: those of the tables and those around them
BitPool == (0 - 1)..18

\* single selectors for the queries of a Mask
SelPool ==
  { PyStr(<< "B", "A", "D" >>), PyStr(<< " ", "s", "a", "t", "\t" >>),
    PyStr(<< "I", "n", "t", "r", "p" >>),
    PyStr(<< "R", "E", "J", "E", "C", "T", "E", "D" >>),
    PyStr(<< "c", "l", "i", "p", "p", "e", "d" >>),
    PyStr(<< "I", "N", "E", "X", "A", "C", "T", "_", "P", "S", "F" >>),
    PyStr(<< "S", "A" >>), PyStr(<< "E", "T", "E", "C", "T" >>),
    PyInt(0), PyInt(1), PyInt(4), PyInt(13), PyInt(14), PyInt(16),
    PyInt(17) }

\* the selectors lists are made of
ListPool ==
  { PyStr(<< "B", "A", "D" >>), PyStr(<< "s", "a", "t", " " >>), PyInt(2),
    PyInt(14), PyStr(<< "S", "A" >>) }

SelLists == UNION {[1..n -> ListPool] : n \in 0..MaxList}

\* arguments that are not lists
NonLists ==
  SelPool \cup { PyTuple(<< PyStr(<< "B", "A", "D" >>), PyInt(1) >>),
                 PyTuple(<< >>), None }

-----------------------------------------------------------------------------
(* The state machine.  pc: "start" (nothing constructed), "ready" (obj is  *)
(* a constructed object), "done" (a constructor raised, or a method of obj *)
(* was called); call and result are the last call and what it returned or  *)
(* raised.                                                                 *)

Init ==
  /\ pc = "start"
  /\ obj = None
  /\ call = [op |-> "none"]
  /\ result = None

\* a constructor call: the object exists only if __init__ returns
Construct(c, r) ==
  /\ call' = c
  /\ result' = IF r.kind = "raise" THEN r ELSE Return("object")
  /\ obj' = IF r.kind = "raise" THEN None ELSE r.val
  /\ pc' = IF r.kind = "raise" THEN "done" ELSE "ready"

\* BitMasks(data_release)
NewBitMasks ==
  /\ pc = "start"
  /\ \E dr \in Releases :
       Construct([op |-> "BitMasks", data_release |-> dr], BitMasks_init(dr))

\* Mask(mask, data_release=...)
NewMask ==
  /\ pc = "start"
  /\ \E dr \in Releases, mask \in Grids :
       Construct([op |-> "Mask", mask |-> mask, data_release |-> dr],
                 Mask_init(mask, dr))

\* a method of obj is callable once obj is constructed
Ready(cls) == pc = "ready" /\ obj.cls = cls

\* a method call: what it returns or raises is recorded, obj is not assigned
Method(c, r) ==
  /\ call' = c
  /\ result' = r
  /\ pc' = "done"
  /\ UNCHANGED obj

\* every plane name and bit index as a single selector
AllSelectors ==
  SelPool \cup {PyStr(n) : n \in PlaneNames} \cup {PyInt(b) : b \in BitPool}

GetIndexArgs ==
  {PyStr(n) : n \in NameVariants \cup BadNames} \cup {PyInt(b) : b \in BitPool}

Name2BitsArgs ==
  PlaneNames \cup BadNames \cup {s.val : s \in {x \in SelPool : x.kind = "str"}}

GetColorArgs == AllSelectors \cup {PyStr(n) : n \in BadNames}

ExtractArgs == AllSelectors \cup {PyList(l) : l \in SelLists}

CombineArgs == NonLists \cup {PyList(l) : l \in SelLists}

CleanArgs == AllSelectors \cup {PyList(l) : l \in SelLists}

\* selectors, sigmas (in tenths: none, negative, 0.5, 1.0, the default 2.0)
\* and thresholds (the default 0.02, 1, 2.5, and two that are not positive)
\* of enlarge
EnlargeSel ==
  { PyStr(<< "B", "A", "D" >>), PyStr(<< " ", "s", "a", "t", "\t" >>),
    PyInt(13), PyInt(14), PyInt(16), PyStr(<< "S", "A" >>) }

Sigmas == {0 - 10, 0, 5, 10, 20}

Thresholds ==
  { [num |-> 1, den |-> 50], [num |-> 1, den |-> 1], [num |-> 5, den |-> 2],
    [num |-> 0, den |-> 1], [num |-> 0 - 1, den |-> 1] }

Call_get_index ==
  /\ Ready("BitMasks")
  /\ \E sel \in GetIndexArgs :
       Method([op |-> "get_index", name_or_bit |-> sel], get_index(obj, sel))

Call_bits2name ==
  /\ Ready("BitMasks")
  /\ \E b \in BitPool :
       Method([op |-> "bits2name", idx |-> b], bits2name(obj, b))

Call_name2bits ==
  /\ Ready("BitMasks")
  /\ \E n \in Name2BitsArgs :
       Method([op |-> "name2bits", name |-> n], name2bits(obj, n))

Call_get_color ==
  /\ Ready("BitMasks")
  /\ \E sel \in GetColorArgs :
       Method([op |-> "get_color", name_or_bit |-> sel], get_color(obj, sel))

Call_extract ==
  /\ Ready("Mask")
  /\ \E sel \in ExtractArgs, show \in BOOLEAN :
       Method([op |-> "extract", bit_list |-> sel, show |-> show],
              extract(obj, sel, show))

Call_combine ==
  /\ Ready("Mask")
  /\ \E arg \in CombineArgs :
       Method([op |-> "combine", name_or_bit_list |-> arg], combine(obj, arg))

Call_clean ==
  /\ Ready("Mask")
  /\ \E arg \in CleanArgs :
       Method([op |-> "clean", name_or_bit_list |-> arg], clean(obj, arg))

Call_enlarge ==
  /\ Ready("Mask")
  /\ \E sel \in EnlargeSel, sigma10 \in Sigmas, threshold \in Thresholds :
       Method([op |-> "enlarge", name_or_bit |-> sel, sigma |-> sigma10,
               threshold |-> threshold],
              enlarge(obj, sel, sigma10, threshold))

Next ==
  \/ NewBitMasks
  \/ NewMask
  \/ Call_get_index
  \/ Call_bits2name
  \/ Call_name2bits
  \/ Call_get_color
  \/ Call_extract
  \/ Call_combine
  \/ Call_clean
  \/ Call_enlarge

Spec == Init /\ [][Next]_vars

-----------------------------------------------------------------------------
(* What the claims speak of, stated without the operators above.           *)

\* bit b of the integer x is set
BitSet(x, b) == (x \div (2 ^ b)) % 2 = 1

\* the spellings of a plane name: any re-casing, whitespace around it
Spellings ==
  [n \in PlaneNames |->
     {l \o c \o r : l \in Pads, r \in Pads, c \in Recasings(n)}]

\* the selector names row e of a table: by its bit index or by a spelling
\* of its name
Selects(sel, e) ==
  \/ sel.kind = "int" /\ sel.val = e.bits
  \/ sel.kind = "str" /\ sel.val \in Spellings[e.name]

PlanesOf(table, sel) == {i \in DOMAIN table : Selects(sel, table[i])}

Valid(table, sel) ==
  sel.kind \in {"int", "str"} /\ PlanesOf(table, sel) # {}

\* the row a valid selector names
PlaneOf(table, sel) == table[CHOOSE i \in PlanesOf(table, sel) : TRUE]

IsGrid(g) == DOMAIN g = 1..Len(g) /\ Len(g) > 0

SameShape(a, b) ==
  /\ Len(a) = Len(b)
  /\ \A i \in 1..Len(a) : Len(a[i]) = Len(b[i])

\* a method of a Mask was called with this operation
Called(op) == pc = "done" /\ obj # None /\ obj.cls = "Mask" /\ call.op = op

\* a method of a BitMasks was called with this operation
Looked(op) == pc = "done" /\ obj # None /\ obj.cls = "BitMasks" /\ call.op = op

-----------------------------------------------------------------------------
(* C1: extract of one valid selector returns a grid of the shape of the    *)
(* stored grid; without show each pixel is 1 when the plane's bit is set   *)
(* in the stored pixel and 0 when not; with show each pixel is the plane's *)
(* value 1 << bit_index when the bit is set and 0 when not.                *)
C1_ExtractOnePlane ==
  (Called("extract") /\ Valid(obj.library, call.bit_list)) =>
    /\ result.kind = "return"
    /\ SameShape(result.val, obj.masks)
    /\ LET bit == PlaneOf(obj.library, call.bit_list).bits
       IN  \A i \in 1..Len(obj.masks) : \A j \in 1..Len(obj.masks[i]) :
             result.val[i][j] =
               IF BitSet(obj.masks[i][j], bit)
               THEN (IF call.show THEN 2 ^ bit ELSE 1)
               ELSE 0

\* a raw extraction of a plane above bit 0 that holds both its value and 0
C1_Witness ==
  /\ Called("extract") /\ Valid(obj.library, call.bit_list)
  /\ call.show
  /\ result.kind = "return"
  /\ \E i \in 1..Len(result.val) : \E j \in 1..Len(result.val[i]) :
       result.val[i][j] = 2 ^ 13
  /\ \E i \in 1..Len(result.val) : \E j \in 1..Len(result.val[i]) :
       result.val[i][j] = 0

(* C2: combine of a list of two or more valid selectors returns a grid of  *)
(* the shape of the stored grid in which a pixel is 1 when the bit of at   *)
(* least one listed plane is set in the stored pixel, and 0 otherwise.     *)
C2_CombineIsOr ==
  (/\ Called("combine") /\ call.name_or_bit_list.kind = "list"
   /\ Len(call.name_or_bit_list.val) >= 2
   /\ \A k \in 1..Len(call.name_or_bit_list.val) :
        Valid(obj.library, call.name_or_bit_list.val[k])) =>
    /\ result.kind = "return"
    /\ SameShape(result.val, obj.masks)
    /\ LET items == call.name_or_bit_list.val
       IN  \A i \in 1..Len(obj.masks) : \A j \in 1..Len(obj.masks[i]) :
             result.val[i][j] =
               IF \E k \in 1..Len(items) :
                    BitSet(obj.masks[i][j], PlaneOf(obj.library, items[k]).bits)
               THEN 1 ELSE 0

\* two different planes combined, a pixel set by one only, a pixel by none
C2_Witness ==
  /\ Called("combine") /\ call.name_or_bit_list.kind = "list"
  /\ Len(call.name_or_bit_list.val) >= 2
  /\ \A k \in 1..Len(call.name_or_bit_list.val) :
       Valid(obj.library, call.name_or_bit_list.val[k])
  /\ \E k, m \in 1..Len(call.name_or_bit_list.val) :
       PlaneOf(obj.library, call.name_or_bit_list.val[k])
         # PlaneOf(obj.library, call.name_or_bit_list.val[m])
  /\ result.kind = "return"
  /\ \E i \in 1..Len(result.val) : \E j \in 1..Len(result.val[i]) :
       /\ result.val[i][j] = 1
       /\ \E k \in 1..Len(call.name_or_bit_list.val) :
            ~BitSet(obj.masks[i][j],
                    PlaneOf(obj.library, call.name_or_bit_list.val[k]).bits)
  /\ \E i \in 1..Len(result.val) : \E j \in 1..Len(result.val[i]) :
       result.val[i][j] = 0

(* C3: combine of a one-element list returns what extract of that element  *)
(* without show returns; for a valid selector that is a grid.              *)
C3_CombineSingle ==
  (/\ Called("combine") /\ call.name_or_bit_list.kind = "list"
   /\ Len(call.name_or_bit_list.val) = 1) =>
    /\ result = extract(obj, call.name_or_bit_list.val[1], FALSE)
    /\ Valid(obj.library, call.name_or_bit_list.val[1]) =>
         result.kind = "return"

\* a one-element combine of a plane above bit 0 that is set in some pixel
C3_Witness ==
  /\ Called("combine") /\ call.name_or_bit_list.kind = "list"
  /\ Len(call.name_or_bit_list.val) = 1
  /\ Valid(obj.library, call.name_or_bit_list.val[1])
  /\ PlaneOf(obj.library, call.name_or_bit_list.val[1]).bits > 0
  /\ result.kind = "return"
  /\ \E i \in 1..Len(result.val) : \E j \in 1..Len(result.val[i]) :
       result.val[i][j] = 1


\* the sum of 2^b over a set of bit positions
RECURSIVE SumPow(_)
SumPow(S) ==
  IF S = {} THEN 0
  ELSE LET b == CHOOSE x \in S : TRUE IN 2 ^ b + SumPow(S \ {b})

\* the selectors of an argument that is one selector or a list of them
SelectorsOf(arg) ==
  IF arg.kind = "list" THEN {arg.val[k] : k \in 1..Len(arg.val)}
  ELSE IF arg.kind \in {"int", "str"} THEN {arg}
  ELSE {}

AllValid(table, arg) ==
  /\ arg.kind \in {"list", "int", "str"}
  /\ \A sel \in SelectorsOf(arg) : Valid(table, sel)

\* a selector that names no row of the table
Unknown(table, sel) ==
  sel.kind \in {"int", "str"} /\ PlanesOf(table, sel) = {}

SomeUnknown(table, arg) ==
  \E sel \in SelectorsOf(arg) : Unknown(table, sel)

AllZero(g) == \A i \in 1..Len(g) : \A j \in 1..Len(g[i]) : g[i][j] = 0

(* C4: clean of one valid selector or of a list of valid selectors returns *)
(* a grid of the shape of the stored grid in which each pixel keeps exactly*)
(* the bits of the table planes that are not listed.                       *)
C4_CleanKeepsOtherPlanes ==
  (Called("clean") /\ AllValid(obj.library, call.name_or_bit_list)) =>
    /\ result.kind = "return"
    /\ SameShape(result.val, obj.masks)
    /\ LET listed == {PlaneOf(obj.library, sel).bits :
                        sel \in SelectorsOf(call.name_or_bit_list)}
           others == {obj.library[k].bits : k \in DOMAIN obj.library} \ listed
       IN  \A i \in 1..Len(obj.masks) : \A j \in 1..Len(obj.masks[i]) :
             result.val[i][j] =
               SumPow({b \in others : BitSet(obj.masks[i][j], b)})

WellFormed(table) ==
  /\ \A i \in DOMAIN table : table[i].value = 2 ^ table[i].bits
  /\ \A i, j \in DOMAIN table :
       i # j => /\ table[i].bits # table[j].bits
                /\ table[i].name # table[j].name
                /\ BitAnd(table[i].value, table[j].value) = 0

\* the release tables that are well formed
WellFormedTables ==
  {table \in {S18A_BITMASKS, PDR1_BITMASKS} : WellFormed(table)}

\* the table a constructed object reads
TableOf(o) == IF o.cls = "Mask" THEN o.library ELSE o.bitmasks

(* C5: in both release tables, and so in the table of every constructed    *)
(* object, every value is 1 << bit index, bit indices and names are        *)
(* unique, and the values of two distinct rows have no bit in common.      *)
C5_TablesWellFormed ==
  /\ S18A_BITMASKS \in WellFormedTables
  /\ PDR1_BITMASKS \in WellFormedTables
  /\ obj # None => TableOf(obj) \in WellFormedTables

\* a Mask of the release with 17 planes
C5_Witness ==
  /\ obj # None /\ obj.cls = "Mask"
  /\ obj.data_release = "s18a" /\ Len(obj.library) = 17
  /\ result = Return("object")

(* C6: get_index of any re-casing of a plane name of the table, with any   *)
(* whitespace around it, returns the position of the row of that name.     *)
C6_ResolveIgnoresCaseAndSpace ==
  Looked("get_index") /\ call.name_or_bit.kind = "str" =>
    \A i \in DOMAIN obj.bitmasks :
      call.name_or_bit.val \in Spellings[obj.bitmasks[i].name] =>
        result = Return(i - 1)

\* a lower-cased, padded spelling resolved to a row that is not the first
C6_Witness ==
  /\ Looked("get_index") /\ call.name_or_bit.kind = "str"
  /\ Len(call.name_or_bit.val) > 0
  /\ call.name_or_bit.val[1] \in Whitespace
  /\ call.name_or_bit.val[Len(call.name_or_bit.val)] \in Whitespace
  /\ \E k \in 1..Len(call.name_or_bit.val) : call.name_or_bit.val[k] = "j"
  /\ result = Return(13)

(* C7: a name or bit index that names no row of the active table makes     *)
(* get_index, bits2name, get_color, extract, combine and clean raise the   *)
(* error of a failed plane lookup (IndexError); nothing is returned.       *)
C7_UnknownPlaneRaises ==
  /\ (Looked("get_index") /\ Unknown(obj.bitmasks, call.name_or_bit)) =>
       result = Raise("IndexError")
  /\ (Looked("get_color") /\ Unknown(obj.bitmasks, call.name_or_bit)) =>
       result = Raise("IndexError")
  /\ (Looked("bits2name")
        /\ \A i \in DOMAIN obj.bitmasks : obj.bitmasks[i].bits # call.idx) =>
       result = Raise("IndexError")
  /\ (Called("extract") /\ SomeUnknown(obj.library, call.bit_list)) =>
       result = Raise("IndexError")
  /\ (Called("combine") /\ call.name_or_bit_list.kind = "list"
        /\ SomeUnknown(obj.library, call.name_or_bit_list)) =>
       result = Raise("IndexError")
  /\ (Called("clean") /\ SomeUnknown(obj.library, call.name_or_bit_list)) =>
       result = Raise("IndexError")

\* a pdr1 mask combined over a known plane and bit 14, a plane of s18a only
C7_Witness ==
  /\ Called("combine") /\ call.name_or_bit_list.kind = "list"
  /\ obj.data_release = "pdr1"
  /\ Len(call.name_or_bit_list.val) = 2
  /\ Valid(obj.library, call.name_or_bit_list.val[1])
  /\ call.name_or_bit_list.val[2] = PyInt(14)
  /\ result = Raise("IndexError")

(* C8: combine of an argument that is not a list raises the error of a     *)
(* wrong argument (TypeError) and returns no grid.                         *)
C8_CombineNeedsList ==
  (Called("combine") /\ call.name_or_bit_list.kind # "list") =>
    result = Raise("TypeError")

\* a tuple of two valid selectors refused
C8_Witness ==
  /\ Called("combine") /\ call.name_or_bit_list.kind = "tuple"
  /\ Len(call.name_or_bit_list.val) = 2
  /\ result = Raise("TypeError")

(* C9: BitMasks or Mask constructed with a release other than 's18a' and   *)
(* 'pdr1' raises the error of an unsupported release (NotImplementedError);*)
(* no object exists afterwards, and an object that exists holds the table  *)
(* of the release it was asked for.                                        *)
C9_UnsupportedRelease ==
  /\ (call.op \in {"BitMasks", "Mask"}
        /\ call.data_release \notin {"s18a", "pdr1"}) =>
       /\ result = Raise("NotImplementedError")
       /\ obj = None
       /\ pc = "done"
  /\ (call.op \in {"BitMasks", "Mask"} /\ obj # None) =>
       TableOf(obj) = IF call.data_release = "s18a" THEN S18A_BITMASKS
                      ELSE PDR1_BITMASKS

\* a Mask asked for the release in upper case
C9_Witness ==
  /\ call.op = "Mask" /\ call.data_release = "S18A"
  /\ result.kind = "raise" /\ obj = None

(* C10, as claimed: combine of the empty list returns an all-zero grid of  *)
(* the shape of the stored grid, and combine of any list of valid planes   *)
(* on an all-zero grid returns an all-zero grid.                           *)
C10_CombineEmptyIsZero ==
  (/\ Called("combine") /\ call.name_or_bit_list.kind = "list"
   /\ AllValid(obj.library, call.name_or_bit_list)
   /\ Len(call.name_or_bit_list.val) = 0 \/ AllZero(obj.masks)) =>
    /\ result.kind = "return"
    /\ SameShape(result.val, obj.masks)
    /\ AllZero(result.val)

(* C10, amended: combine of the empty list raises TypeError (the reduction *)
(* of an empty array) and returns no grid; combine of a non-empty list of  *)
(* valid planes on an all-zero grid returns an all-zero grid of the shape  *)
(* of the stored grid.                                                     *)
C10_CombineEmptyRaises ==
  /\ (/\ Called("combine") /\ call.name_or_bit_list.kind = "list"
      /\ Len(call.name_or_bit_list.val) = 0) =>
       result = Raise("TypeError")
  /\ (/\ Called("combine") /\ call.name_or_bit_list.kind = "list"
      /\ Len(call.name_or_bit_list.val) > 0
      /\ AllValid(obj.library, call.name_or_bit_list)
      /\ AllZero(obj.masks)) =>
       /\ result.kind = "return"
       /\ SameShape(result.val, obj.masks)
       /\ AllZero(result.val)

\* the empty list combined on a grid with more than one pixel
C10_Witness ==
  /\ Called("combine") /\ call.name_or_bit_list.kind = "list"
  /\ Len(call.name_or_bit_list.val) = 0
  /\ Len(obj.masks) > 1
  /\ result.kind = "raise"

-----------------------------------------------------------------------------
(* C11: extract of a list of valid selectors returns a list of as many     *)
(* grids, in the order of the selectors and with duplicates kept: the k-th *)
(* grid is what extract of the k-th selector alone returns under the same  *)
(* show flag.                                                              *)
C11_ExtractListInOrder ==
  (/\ Called("extract") /\ call.bit_list.kind = "list"
   /\ AllValid(obj.library, call.bit_list)) =>
    /\ result.kind = "return"
    /\ Len(result.val) = Len(call.bit_list.val)
    /\ \A k \in 1..Len(call.bit_list.val) :
         Return(result.val[k]) = extract(obj, call.bit_list.val[k], call.show)

\* two planes extracted raw whose grids differ
C11_Witness ==
  /\ Called("extract") /\ call.bit_list.kind = "list"
  /\ AllValid(obj.library, call.bit_list)
  /\ Len(call.bit_list.val) = 2
  /\ call.show
  /\ result.kind = "return"
  /\ result.val[1] # result.val[2]

\* the row of the table whose name the string spells
Spelled(table, chars) ==
  {i \in DOMAIN table : chars \in Spellings[table[i].name]}

(* C12, as claimed: name2bits of a plane name of the table returns the     *)
(* integer 1 << bit_index of that plane.                                   *)
C12_Name2BitsIsValue ==
  Looked("name2bits") =>
    \A i \in Spelled(obj.bitmasks, call.name) :
      result = Return(PyInt(2 ^ obj.bitmasks[i].bits))

(* C12, amended: name2bits of a plane name of the table returns the bit    *)
(* index of that plane (its 'bits' field).                                 *)
C12_Name2BitsIsBitIndex ==
  Looked("name2bits") =>
    \A i \in Spelled(obj.bitmasks, call.name) :
      result = Return(PyInt(obj.bitmasks[i].bits))

\* the name of the plane of bit 13 looked up
C12_Witness ==
  /\ Looked("name2bits")
  /\ Spelled(obj.bitmasks, call.name) # {}
  /\ result = Return(PyInt(13))

\* the integer with every bit of the table set
TableBits(table) == SumPow({table[i].bits : i \in DOMAIN table})

\* the object whose stored pixels keep only the bits of the table
Scrubbed(self) ==
  [self EXCEPT !.masks = GridAnd(self.masks, TableBits(self.library))]

(* C15, as claimed: for valid selectors, extract, combine and clean return *)
(* a result, and it is the result they return on the grid with the bits    *)
(* outside the table cleared (so two grids that differ only in such bits   *)
(* give one result).                                                       *)
C15_OutOfTableBitsIgnored ==
  /\ (Called("extract") /\ AllValid(obj.library, call.bit_list)) =>
       /\ result.kind = "return"
       /\ result = extract(Scrubbed(obj), call.bit_list, call.show)
  /\ (Called("combine") /\ call.name_or_bit_list.kind = "list"
        /\ Len(call.name_or_bit_list.val) > 0
        /\ AllValid(obj.library, call.name_or_bit_list)) =>
       /\ result.kind = "return"
       /\ result = combine(Scrubbed(obj), call.name_or_bit_list)
  /\ (Called("clean") /\ AllValid(obj.library, call.name_or_bit_list)) =>
       /\ result.kind = "return"
       /\ result = clean(Scrubbed(obj), call.name_or_bit_list)

(* C16: bits2name of the bit index of a row returns the name of the row;   *)
(* get_index of the name and of the bit index of a row both return the     *)
(* position of the row; get_color and extract give one result for the name *)
(* and for the bit index of a row.                                         *)
C16_NameAndBitAgree ==
  /\ Looked("bits2name") =>
       \A i \in DOMAIN obj.bitmasks :
         obj.bitmasks[i].bits = call.idx =>
           result = Return(PyStr(obj.bitmasks[i].name))
  /\ Looked("get_index") =>
       \A i \in DOMAIN obj.bitmasks :
         call.name_or_bit \in {PyInt(obj.bitmasks[i].bits),
                               PyStr(obj.bitmasks[i].name)} =>
           result = Return(i - 1)
  /\ Looked("get_color") =>
       \A i \in DOMAIN obj.bitmasks :
         call.name_or_bit \in {PyInt(obj.bitmasks[i].bits),
                               PyStr(obj.bitmasks[i].name)} =>
           result = Return(obj.bitmasks[i].color)
  /\ Called("extract") =>
       \A i \in DOMAIN obj.library :
         call.bit_list \in {PyInt(obj.library[i].bits),
                            PyStr(obj.library[i].name)} =>
           /\ result = extract(obj, PyInt(obj.library[i].bits), call.show)
           /\ result = extract(obj, PyStr(obj.library[i].name), call.show)

\* the last plane of s18a resolved by its bit index
C16_Witness ==
  /\ Looked("get_index")
  /\ call.name_or_bit = PyInt(16)
  /\ result = Return(16)

(* C17: enlarge of a valid selector returns a grid of the shape of the     *)
(* stored grid that holds only 0 and 1; on an all-zero grid, for any sigma *)
(* and any threshold above 0, it is all zero.                              *)
C17_EnlargeZeroGrid ==
  (Called("enlarge") /\ Valid(obj.library, call.name_or_bit)) =>
    /\ result.kind = "return"
    /\ SameShape(result.val, obj.masks)
    /\ \A i \in 1..Len(result.val) : \A j \in 1..Len(result.val[i]) :
         result.val[i][j] \in {0, 1}
    /\ (AllZero(obj.masks) /\ call.threshold.num > 0) => AllZero(result.val)

\* an all-zero grid of several pixels smoothed with the default sigma
C17_Witness ==
  /\ Called("enlarge") /\ Valid(obj.library, call.name_or_bit)
  /\ AllZero(obj.masks) /\ Len(obj.masks) > 1 /\ Len(obj.masks[1]) > 1
  /\ call.sigma = 20 /\ call.threshold.num > 0
  /\ result.kind = "return" /\ AllZero(result.val)

-----------------------------------------------------------------------------
(* One Mask used over and over: every call leaves the caller ready for the *)
(* next one.                                                               *)

SeqSel == { PyStr(<< "B", "A", "D" >>), PyInt(1), PyInt(17), PyStr(<< "N", "O" >>) }

SeqLists ==
  { PyList(<< PyInt(0), PyStr(<< "s", "a", "t" >>) >>), PyList(<< PyInt(2) >>),
    PyList(<< >>), PyInt(0) }

\* arrays assigned to Mask.masks
SetterGrids == { GridOf(1, 1, 0, 0), GridOf(1, MaxCols, 7, 1),
                 GridOf(MaxRows, 1, 2, 1) }

\* a call of a method on the one object
Again(c, r, stored) ==
  /\ call' = c
  /\ result' = r
  /\ obj' = [obj EXCEPT !.masks = stored]
  /\ pc' = "ready"

Seq_extract ==
  /\ Ready("Mask")
  /\ \E sel \in SeqSel \cup SeqLists, show \in BOOLEAN :
       LET r == extract(obj, sel, show)
       IN  Again([op |-> "extract", bit_list |-> sel, show |-> show], r,
                 StoredAfter(obj, r))

Seq_combine ==
  /\ Ready("Mask")
  /\ \E arg \in SeqLists :
       LET r == combine(obj, arg)
       IN  Again([op |-> "combine", name_or_bit_list |-> arg], r,
                 StoredAfter(obj, r))

Seq_clean ==
  /\ Ready("Mask")
  /\ \E arg \in SeqLists :
       LET r == clean(obj, arg)
       IN  Again([op |-> "clean", name_or_bit_list |-> arg], r,
                 StoredAfter(obj, r))

Seq_enlarge ==
  /\ Ready("Mask")
  /\ \E sel \in SeqSel, sigma10 \in {0, 10} :
       LET threshold == [num |-> 1, den |-> 50]
           r == enlarge(obj, sel, sigma10, threshold)
       IN  Again([op |-> "enlarge", name_or_bit |-> sel, sigma |-> sigma10,
                  threshold |-> threshold], r, StoredAfter(obj, r))

Seq_get_cmap ==
  /\ Ready("Mask")
  /\ \E sel \in SeqSel :
       LET r == get_cmap(obj, sel)
       IN  Again([op |-> "get_cmap", name_or_bit |-> sel], r,
                 StoredAfter(obj, r))

\* m.masks = mask_array
Seq_set_masks ==
  /\ Ready("Mask")
  /\ \E mask_array \in SetterGrids :
       Again([op |-> "masks.setter", mask_array |-> mask_array], None,
             set_masks(obj, mask_array).masks)

SeqNext ==
  \/ NewMask
  \/ Seq_extract
  \/ Seq_combine
  \/ Seq_clean
  \/ Seq_enlarge
  \/ Seq_get_cmap
  \/ Seq_set_masks

SeqSpec == Init /\ [][SeqNext]_vars

(* C13 as stated: once a Mask is constructed, no step of its public        *)
(* interface changes the stored grid.                                      *)
C13_GridNeverChanges ==
  [][pc = "ready" => obj'.masks = obj.masks]_vars

(* C13: extract, combine, clean, enlarge and get_cmap leave the stored     *)
(* grid as it is, whether they return or raise; the grid changes only in   *)
(* a step that assigns to the masks property.                              *)
C13_OnlySetterChangesGrid ==
  [][(pc = "ready" /\ call'.op # "masks.setter") => obj'.masks = obj.masks]_vars

\* a query has returned an array that differs from the stored grid
C13_Witness ==
  /\ pc = "ready" /\ call.op \in {"combine", "enlarge"}
  /\ result.kind = "return"
  /\ result.val # obj.masks

-----------------------------------------------------------------------------
(* Two callers and two Mask instances.  Here pc, call and result hold one  *)
(* entry per caller and obj one Mask per instance.  The instances share    *)
(* the module-level tables S18A_BITMASKS and PDR1_BITMASKS by reference;   *)
(* no method writes to a table, so each instance carries the table's       *)
(* value.  A query takes one step for every read of self.masks: one per    *)
(* element of a list comprehension, one for a single extraction, clean or  *)
(* enlarge.  The list built so far (acc) is local to the call.             *)

Callers == {1, 2}
Insts == {1, 2}

ConcMasks ==
  { Mask_init(GridOf(MaxRows, MaxCols, 1, 1), "s18a").val,
    Mask_init(GridOf(1, MaxCols, 4, 1), "pdr1").val }

ConcLists ==
  { PyList(<< PyInt(1), PyStr(<< "B", "A", "D" >>) >>),
    PyList(<< PyInt(0), PyInt(40) >>), PyList(<< PyInt(2) >>) }

ConcCalls ==
  {[op |-> "extract", inst |-> k, bit_list |-> b, show |-> sh] :
     k \in Insts, b \in ConcLists \cup {PyInt(2)}, sh \in BOOLEAN}
  \cup {[op |-> "combine", inst |-> k, name_or_bit_list |-> b] :
          k \in Insts, b \in ConcLists \cup {PyInt(0), PyList(<< >>)}}
  \cup {[op |-> "clean", inst |-> k, name_or_bit_list |-> b] :
          k \in Insts, b \in {PyInt(0), PyList(<< PyInt(40) >>)}}
  \cup {[op |-> "enlarge", inst |-> k, name_or_bit |-> b, sigma |-> 10,
         threshold |-> [num |-> 1, den |-> 50]] :
          k \in Insts, b \in {PyInt(1)}}

Partial(acc) == [kind |-> "partial", val |-> acc]

\* the next element of [extract one b for b in items], acc holding the
\* elements already built
ListStep(self, items, show, acc) ==
  IF Len(items) = 0 THEN Return(<< >>)
  ELSE LET head == ExtractOne(self, items[Len(acc) + 1], show)
       IN  IF head.kind = "raise" THEN head
           ELSE IF Len(acc) + 1 = Len(items)
           THEN Return(acc \o << head.val >>)
           ELSE Partial(acc \o << head.val >>)

\* the next step of query q on self
QueryStep(self, q, acc) ==
  CASE q.op = "extract" ->
         IF q.bit_list.kind # "list" THEN ExtractOne(self, q.bit_list, q.show)
         ELSE ListStep(self, q.bit_list.val, q.show, acc)
    [] q.op = "combine" ->
         IF q.name_or_bit_list.kind # "list" THEN Raise("TypeError")
         ELSE IF Len(q.name_or_bit_list.val) = 1
         THEN extract(self, q.name_or_bit_list.val[1], FALSE)
         ELSE LET each == ListStep(self, q.name_or_bit_list.val, FALSE, acc)
              IN  IF each.kind = "return"
                  THEN bitwise_or_reduce_list(each.val) ELSE each
    [] q.op = "clean" -> clean(self, q.name_or_bit_list)
    [] q.op = "enlarge" -> enlarge(self, q.name_or_bit, q.sigma, q.threshold)

ConcInit ==
  /\ pc = [c \in Callers |-> "idle"]
  /\ obj \in [Insts -> ConcMasks]
  /\ call = [c \in Callers |-> [op |-> "none"]]
  /\ result = [c \in Callers |-> None]

\* caller c enters a method of one of the instances
Conc_call(c) ==
  /\ pc[c] = "idle"
  /\ \E q \in ConcCalls :
       /\ call' = [call EXCEPT ![c] = q]
       /\ result' = [result EXCEPT ![c] = Partial(<< >>)]
  /\ pc' = [pc EXCEPT ![c] = "run"]
  /\ UNCHANGED obj

\* the query of caller c reads its instance once more
Conc_step(c) ==
  /\ pc[c] = "run"
  /\ LET k == call[c].inst
         r == QueryStep(obj[k], call[c], result[c].val)
     IN  /\ result' = [result EXCEPT ![c] = r]
         /\ pc' = [pc EXCEPT ![c] = IF r.kind = "partial" THEN "run" ELSE "done"]
         /\ obj' = [obj EXCEPT ![k].masks = StoredAfter(obj[k], r)]
  /\ UNCHANGED call

\* caller c has its outcome and may call again
Conc_next(c) ==
  /\ pc[c] = "done"
  /\ pc' = [pc EXCEPT ![c] = "idle"]
  /\ call' = [call EXCEPT ![c] = [op |-> "none"]]
  /\ result' = [result EXCEPT ![c] = None]
  /\ UNCHANGED obj

ConcNext ==
  \E c \in Callers :
    \/ Conc_call(c)
    \/ Conc_step(c)
    \/ Conc_next(c)

ConcSpec == ConcInit /\ [][ConcNext]_vars

\* query q run from start to end with nothing in between
RunAlone(self, q) ==
  CASE q.op = "extract" -> extract(self, q.bit_list, q.show)
    [] q.op = "combine" -> combine(self, q.name_or_bit_list)
    [] q.op = "clean" -> clean(self, q.name_or_bit_list)
    [] q.op = "enlarge" -> enlarge(self, q.name_or_bit, q.sigma, q.threshold)

(* C14: however the steps of the callers' queries interleave, on one       *)
(* instance or on two, a finished query has the outcome of the same query  *)
(* run alone on its instance.                                              *)
C14_InterleavedAsAlone ==
  \A c \in Callers :
    pc[c] = "done" => result[c] = RunAlone(obj[call[c].inst], call[c])

\* a list extraction has finished on an instance while the other caller is
\* in the middle of a list query on the same instance
C14_Witness ==
  \E c \in Callers, d \in Callers :
    /\ c # d /\ pc[c] = "done" /\ pc[d] = "run"
    /\ call[c].inst = call[d].inst
    /\ call[c].op = "extract" /\ result[c].kind = "return"
    /\ call[c].bit_list.kind = "list" /\ Len(result[c].val) = 2
    /\ Len(result[d].val) = 1

-----------------------------------------------------------------------------
(* sky.py: catalogs of sky objects.  A structured array is its set of      *)
(* column names (dtype) and its rows, each row a function of the column    *)
(* names.  A column name, a dictionary key and a formatted string are      *)
(* tuples of their parts: "g_apertureflux_10_flux" is                      *)
(* << "g", "apertureflux", "10", "flux" >>.                                *)

\* how far the row counts of a region go beyond 0 and beyond the default
\* n_min of select_tract
MaxExtra == 1

\* defaults of the keyword arguments
DefaultNObjMin == 5
DefaultTractNMin == 10
DefaultBoxNMin == 5

\* SkyObjs.FILTER_SHORT
FILTER_SHORT == << "g", "r", "i", "z", "y" >>

\* AperPhot(name, rad), rerun 's18a'
AperPhot_init(name, rad) ==
  [kind |-> "AperPhot", cls |-> "AperPhot", aper_id |-> name, name |-> << "aper", name >>,
   r_pix |-> rad, rerun |-> "s18a"]

\* AperPhot.flux(band, rerun)
AperPhot_flux(self, band, rerun) ==
  IF rerun = "s18a" THEN Return(<< band, "apertureflux", self.aper_id, "flux" >>)
  ELSE Raise("NotImplementedError")

\* AperPhot.err(band, rerun): "{0}_{1}sigma" of the band and the flux name
AperPhot_err(self, band, rerun) ==
  IF rerun = "s18a"
  THEN Return(<< band, "apertureflux", self.aper_id, "fluxsigma" >>)
  ELSE Raise("NotImplementedError")

\* the tracts and patches of the rows of the catalogs
Regions ==
  << [tract |-> 9000, patch |-> 1], [tract |-> 9000, patch |-> 2],
     [tract |-> 9001, patch |-> 1] >>

\* the columns of a measurement catalog or of a forced one, with the
\* fluxes of aperture 10 in the five bands
ColumnsOf(meas) ==
  { << "tract" >>, << "patch" >>, << "object_id" >> }
    \cup (IF meas THEN { << "i_ra" >>, << "i_dec" >> }
                  ELSE { << "ra" >>, << "dec" >> })
    \cup { << FILTER_SHORT[b], "apertureflux", "10", kind >> :
             b \in DOMAIN FILTER_SHORT, kind \in {"flux", "fluxsigma"} }

\* row number id of the catalog, the i-th of region r
RowOf(meas, r, i, id) ==
  [c \in ColumnsOf(meas) |->
     IF c = << "tract" >> THEN Regions[r].tract
     ELSE IF c = << "patch" >> THEN Regions[r].patch
     ELSE IF c = << "object_id" >> THEN id
     ELSE IF c \in { << "ra" >>, << "i_ra" >> } THEN i % 3
     ELSE IF c \in { << "dec" >>, << "i_dec" >> } THEN r
     ELSE IF c[4] = "fluxsigma" THEN 1 + (id % 2)
     ELSE ((7 * id + (CHOOSE b \in DOMAIN FILTER_SHORT : FILTER_SHORT[b] = c[1]))
             % 5) - 2]

\* the catalog with counts[r] rows of region r, region after region
RECURSIVE RowsFrom(_, _, _, _)
RowsFrom(meas, counts, r, id) ==
  IF r > Len(counts) THEN << >>
  ELSE [i \in 1..counts[r] |-> RowOf(meas, r, i, id + i)]
         \o RowsFrom(meas, counts, r + 1, id + counts[r])

CatalogOf(meas, counts) ==
  [dtype |-> ColumnsOf(meas), rows |-> RowsFrom(meas, counts, 1, 0)]

\* row counts of a region: none, a few, and around the default n_min
Counts ==
  (0..MaxExtra) \cup (DefaultTractNMin..(DefaultTractNMin + MaxExtra))

CountsPool ==
  { << a, b, c >> : a \in Counts, b \in Counts, c \in 0..1 }

\* arr[mask] with a boolean mask: the rows kept, in their order
RECURSIVE Pick(_, _)
Pick(rows, mask) ==
  IF Len(rows) = 0 THEN << >>
  ELSE (IF mask[1] THEN << rows[1] >> ELSE << >>)
         \o Pick(Tail(rows), Tail(mask))

BoolIndex(arr, mask) == [dtype |-> arr.dtype, rows |-> Pick(arr.rows, mask)]

\* mask.sum()
RECURSIVE CountTrue(_)
CountTrue(mask) ==
  IF Len(mask) = 0 THEN 0
  ELSE (IF mask[1] THEN 1 ELSE 0) + CountTrue(Tail(mask))

\* np.unique of integers: sorted, without repeats
RECURSIVE Sorted(_)
Sorted(S) ==
  IF S = {} THEN << >>
  ELSE LET lo == CHOOSE x \in S : \A y \in S : x <= y
       IN  << lo >> \o Sorted(S \ {lo})

\* np.unique of the "{0}_{1:03d}" strings of (tract, patch): sorted as
\* strings, which for tracts of one width and patches below 1000 is the
\* order of the pairs
RECURSIVE SortedPairs(_)
SortedPairs(S) ==
  IF S = {} THEN << >>
  ELSE LET lo == CHOOSE x \in S : \A y \in S :
                   x[1] < y[1] \/ (x[1] = y[1] /\ x[2] <= y[2])
       IN  << lo >> \o SortedPairs(S \ {lo})

\* SkyObjs(skyobjs, meas, nobj_min) of an array
SkyObjs_init(skyobjs, meas, nobj_min) ==
  LET rows == skyobjs.rows
      tracts == Sorted({rows[i][<< "tract" >>] : i \in DOMAIN rows})
      pairs == SortedPairs({<< rows[i][<< "tract" >>], rows[i][<< "patch" >>] >> :
                              i \in DOMAIN rows})
  IN  [cls |-> "SkyObjs",
       ra_col |-> IF meas THEN << "i_ra" >> ELSE << "ra" >>,
       dec_col |-> IF meas THEN << "i_dec" >> ELSE << "dec" >>,
       type |-> IF meas THEN "meas" ELSE "force",
       meas |-> meas,
       skyobjs |-> skyobjs,
       n_min |-> nobj_min,
       tract_list |-> tracts,
       n_tract |-> Len(tracts),
       tract_patch |-> pairs,
       n_tract_patch |-> Len(pairs)]

\* a value returned after warnings.warn(text)
Warned(v, text) == [kind |-> "return", val |-> v, warned |-> text]

\* SkyObjs(self.skyobjs[self.skyobjs['tract'] < 0])
NoRows(self) ==
  SkyObjs_init(
    BoolIndex(self.skyobjs,
              [i \in DOMAIN self.skyobjs.rows |->
                 self.skyobjs.rows[i][<< "tract" >>] < 0]),
    FALSE, DefaultNObjMin)

\* SkyObjs.select_tract(tract, patch, n_min); patch is None or an integer
select_tract(self, tract, patch, n_min) ==
  LET rows == self.skyobjs.rows
      in_tract == [i \in DOMAIN rows |-> rows[i][<< "tract" >>] = tract]
      tract_mask ==
        IF patch.kind = "None" THEN in_tract
        ELSE [i \in DOMAIN rows |->
                in_tract[i] /\ rows[i][<< "patch" >>] = patch.val]
      n_skyobj == CountTrue(tract_mask)
  IN  IF CountTrue(in_tract) = 0 THEN Warned(NoRows(self), "is not available")
      ELSE IF patch.kind # "None" /\ n_skyobj = 0
      THEN Warned(NoRows(self), "is not available")
      ELSE IF n_skyobj <= n_min
      THEN Warned(NoRows(self),
                  IF patch.kind = "None" THEN "has less than" ELSE "has <")
      ELSE Return(SkyObjs_init(BoolIndex(self.skyobjs, tract_mask),
                               FALSE, DefaultNObjMin))

\* SkyObjs.select_box(ra1, ra2, dec1, dec2, n_min)
select_box(self, ra1, ra2, dec1, dec2, n_min) ==
  LET lo_ra == IF ra1 >= ra2 THEN ra2 ELSE ra1
      hi_ra == IF ra1 >= ra2 THEN ra1 ELSE ra2
      lo_dec == IF dec1 >= dec2 THEN dec2 ELSE dec1
      hi_dec == IF dec1 >= dec2 THEN dec1 ELSE dec2
      rows == self.skyobjs.rows
  IN  IF self.ra_col \notin self.skyobjs.dtype
         \/ self.dec_col \notin self.skyobjs.dtype
      THEN Raise("ValueError")
      ELSE LET box_mask ==
                 [i \in DOMAIN rows |->
                    /\ rows[i][self.ra_col] >= lo_ra
                    /\ rows[i][self.ra_col] <= hi_ra
                    /\ rows[i][self.dec_col] >= lo_dec
                    /\ rows[i][self.dec_col] <= hi_dec]
           IN  IF CountTrue(box_mask) = 0
               THEN Warned(NoRows(self), "No sky object in this region")
               ELSE IF CountTrue(box_mask) <= n_min
               THEN Warned(SkyObjs_init(BoolIndex(self.skyobjs, box_mask),
                                        FALSE, DefaultNObjMin), "Only find")
               ELSE Return(SkyObjs_init(BoolIndex(self.skyobjs, box_mask),
                                        FALSE, DefaultNObjMin))

\* {**a, **b}
Merge(a, b) ==
  [k \in DOMAIN a \cup DOMAIN b |-> IF k \in DOMAIN b THEN b[k] ELSE a[k]]

\* d[key] = value
SetItem(d, key, value) ==
  [k \in DOMAIN d \cup {key} |-> IF k = key THEN value ELSE d[k]]

\* utils.stats_summary(values, n_min=..., prefix=...): a dictionary of the
\* statistics of the values under the prefix, kept here as one entry that
\* holds what the statistics are taken of
stats_summary(values, n_min, prefix) ==
  [k \in {prefix} |-> [of |-> values, n_min |-> n_min]]

\* SkyObjs.flux_stats(aper, band, prefix=prefix): flux * CGS_TO_MUJY
flux_stats(self, aper, band, prefix) ==
  IF \A b \in DOMAIN FILTER_SHORT : FILTER_SHORT[b] # band
  THEN Raise("AssertionError")
  ELSE LET flux_col == AperPhot_flux(aper, band, "s18a").val
           rows == self.skyobjs.rows
       IN  IF flux_col \notin self.skyobjs.dtype THEN Raise("Exception")
           ELSE Return(stats_summary(
                  [quantity |-> "flux", unit |-> "mujy",
                   data |-> [i \in DOMAIN rows |-> rows[i][flux_col]]],
                  self.n_min, prefix))

\* SkyObjs.snr_stats(aper, band, prefix=prefix): flux / flux error, each
\* value kept as the pair of the two
snr_stats(self, aper, band, prefix) ==
  IF \A b \in DOMAIN FILTER_SHORT : FILTER_SHORT[b] # band
  THEN Raise("AssertionError")
  ELSE LET flux_col == AperPhot_flux(aper, band, "s18a").val
           err_col == AperPhot_err(aper, band, "s18a").val
           rows == self.skyobjs.rows
       IN  IF flux_col \notin self.skyobjs.dtype
              \/ err_col \notin self.skyobjs.dtype
           THEN Raise("Exception")
           ELSE Return(stats_summary(
                  [quantity |-> "snr", unit |-> "none",
                   data |-> [i \in DOMAIN rows |->
                               << rows[i][flux_col], rows[i][err_col] >>]],
                  self.n_min, prefix))

\* SkyObjs.mu_stats(aper, band, prefix=prefix): flux * CGS_TO_MUJY over the
\* area of the aperture, each value kept as the pair of flux and radius
mu_stats(self, aper, band, prefix) ==
  IF \A b \in DOMAIN FILTER_SHORT : FILTER_SHORT[b] # band
  THEN Raise("AssertionError")
  ELSE LET flux_col == AperPhot_flux(aper, band, "s18a").val
           rows == self.skyobjs.rows
       IN  IF flux_col \notin self.skyobjs.dtype THEN Raise("Exception")
           ELSE Return(stats_summary(
                  [quantity |-> "mu", unit |-> "mujy",
                   data |-> [i \in DOMAIN rows |->
                               << rows[i][flux_col], aper.r_pix >>]],
                  self.n_min, prefix))

\* the body of the loop of sum_all_filters for one band: three calls of
\* flux_stats, under the flux, snr and mu prefixes
BandSum(self, aper, band) ==
  LET flux == flux_stats(self, aper, band, aper.name \o << band, "flux" >>)
      snr == flux_stats(self, aper, band, aper.name \o << band, "snr" >>)
      mu == flux_stats(self, aper, band, aper.name \o << band, "mu" >>)
  IN  IF flux.kind = "raise" THEN flux
      ELSE IF snr.kind = "raise" THEN snr
      ELSE IF mu.kind = "raise" THEN mu
      ELSE Return(Merge(Merge(flux.val, snr.val), mu.val))

\* SkyObjs.sum_all_filters(aper), from band number b on
RECURSIVE SumBands(_, _, _, _)
SumBands(self, aper, b, aper_sum) ==
  IF b > Len(FILTER_SHORT) THEN Return(aper_sum)
  ELSE LET one == BandSum(self, aper, FILTER_SHORT[b])
       IN  IF one.kind = "raise" THEN one
           ELSE SumBands(self, aper, b + 1, Merge(aper_sum, one.val))

sum_all_filters(self, aper) == SumBands(self, aper, 1, << >>)

\* the dictionary comprehension of sum_aper_list over the apertures
RECURSIVE SumApers(_, _)
SumApers(self, apers) ==
  IF Len(apers) = 0 THEN Return(<< >>)
  ELSE LET head == sum_all_filters(self, apers[1])
       IN  IF head.kind = "raise" THEN head
           ELSE LET rest == SumApers(self, Tail(apers))
                IN  IF rest.kind = "raise" THEN rest
                    ELSE Return(Merge(head.val, rest.val))

\* SkyObjs.sum_aper_list(aper_list)
sum_aper_list(self, aper_list) ==
  IF aper_list.kind = "list" THEN SumApers(self, aper_list.val)
  ELSE Raise("TypeError")

\* the summary of one tract (patch = None) or of one tract and patch that
\* sum_all_tracts appends: << >> when aper_list is neither a list nor an
\* AperPhot, else the one dictionary
TractEntry(self, aper_list, t, patch) ==
  LET sub == select_tract(self, t, patch, DefaultTractNMin).val
      t_sum == IF aper_list.kind = "list" THEN sum_aper_list(sub, aper_list)
               ELSE sum_all_filters(sub, aper_list)
  IN  IF aper_list.kind \notin {"list", "AperPhot"} THEN Return(<< >>)
      ELSE IF t_sum.kind = "raise" THEN t_sum
      ELSE IF patch.kind = "None"
      THEN Return(<< SetItem(t_sum.val, << "tract" >>, t) >>)
      ELSE IF aper_list.kind = "list"
      THEN Return(<< SetItem(SetItem(t_sum.val, << "tract" >>, t),
                             << "patch" >>, patch.val) >>)
      ELSE Return(<< SetItem(SetItem(t_sum.val, << "tract" >>, t),
                             << "tract" >>, patch.val) >>)

\* the loop of sum_all_tracts over the tracts, or over the (tract, patch)
\* pairs, from position n on
RECURSIVE TractLoop(_, _, _, _)
TractLoop(self, aper_list, patch, n) ==
  LET over == IF patch THEN self.tract_patch ELSE self.tract_list
  IN  IF n > Len(over) THEN Return(<< >>)
      ELSE LET head == IF patch
                       THEN TractEntry(self, aper_list, over[n][1],
                                       PyInt(over[n][2]))
                       ELSE TractEntry(self, aper_list, over[n], None)
           IN  IF head.kind = "raise" THEN head
               ELSE LET rest == TractLoop(self, aper_list, patch, n + 1)
                    IN  IF rest.kind = "raise" THEN rest
                        ELSE Return(head.val \o rest.val)

\* SkyObjs.sum_all_tracts(aper_list, patch=patch)
sum_all_tracts(self, aper_list, patch) == TractLoop(self, aper_list, patch, 1)

-----------------------------------------------------------------------------
(* The caller builds one SkyObjs from a catalog and calls one method.      *)

Catalogs == {CatalogOf(meas, counts) : meas \in BOOLEAN, counts \in CountsPool}

\* S18A_APER['aper10'] and S18A_APER['aper15']
Aper10 == AperPhot_init("10", 3)
Aper15 == AperPhot_init("15", 4)

AperArgs ==
  { PyList(<< Aper10 >>), PyList(<< Aper10, Aper15 >>), PyList(<< >>),
    Aper10, PyInt(10) }

TractArgs == {9000, 9001, 9002}
PatchArgs == {None, PyInt(1), PyInt(2), PyInt(3)}
NMinArgs == {DefaultTractNMin, 0, 1}

NewSkyObjs ==
  /\ pc = "start"
  /\ \E skyobjs \in Catalogs, meas \in BOOLEAN,
        nobj_min \in {DefaultNObjMin, DefaultNObjMin + 1} :
       Construct([op |-> "SkyObjs", skyobjs |-> skyobjs, meas |-> meas,
                  nobj_min |-> nobj_min],
                 Return(SkyObjs_init(skyobjs, meas, nobj_min)))

Call_select_tract ==
  /\ Ready("SkyObjs")
  /\ \E tract \in TractArgs, patch \in PatchArgs, n_min \in NMinArgs :
       Method([op |-> "select_tract", tract |-> tract, patch |-> patch,
               n_min |-> n_min],
              select_tract(obj, tract, patch, n_min))

Call_select_box ==
  /\ Ready("SkyObjs")
  /\ \E ra1 \in 0..2, ra2 \in {0, 2}, dec1 \in {1, 2}, dec2 \in {1, 3} :
       Method([op |-> "select_box", ra1 |-> ra1, ra2 |-> ra2, dec1 |-> dec1,
               dec2 |-> dec2, n_min |-> DefaultBoxNMin],
              select_box(obj, ra1, ra2, dec1, dec2, DefaultBoxNMin))

Call_sum_all_filters ==
  /\ Ready("SkyObjs")
  /\ \E aper \in {Aper10, Aper15} :
       Method([op |-> "sum_all_filters", aper |-> aper],
              sum_all_filters(obj, aper))

Call_sum_all_tracts ==
  /\ Ready("SkyObjs")
  /\ \E aper_list \in AperArgs, patch \in BOOLEAN :
       Method([op |-> "sum_all_tracts", aper_list |-> aper_list,
               patch |-> patch],
              sum_all_tracts(obj, aper_list, patch))

SkyNext ==
  \/ NewSkyObjs
  \/ Call_select_tract
  \/ Call_select_box
  \/ Call_sum_all_filters
  \/ Call_sum_all_tracts

SkySpec == Init /\ [][SkyNext]_vars

\* op has been called on the SkyObjs
Sky(op) == pc = "done" /\ obj.cls = "SkyObjs" /\ call.op = op

\* the rows of the catalog of obj that select_tract was asked for
Matching ==
  LET rows == obj.skyobjs.rows
  IN  Pick(rows,
           [i \in DOMAIN rows |->
              /\ rows[i][<< "tract" >>] = call.tract
              /\ (call.patch.kind # "None" =>
                    rows[i][<< "patch" >>] = call.patch.val)])

(* C18: sum_all_tracts of a list of AperPhot or of one AperPhot returns    *)
(* one entry per tract, or per (tract, patch) pair when patch is set, in   *)
(* the order of the catalog's lists; each entry has 'tract' equal to its   *)
(* tract and, when patch is set, 'patch' equal to its patch.               *)
C18_EntriesCarryRegion ==
  (Sky("sum_all_tracts") /\ result.kind = "return"
     /\ call.aper_list.kind \in {"list", "AperPhot"}) =>
    LET over == IF call.patch THEN obj.tract_patch ELSE obj.tract_list
    IN  /\ Len(result.val) = Len(over)
        /\ \A n \in 1..Len(result.val) :
             LET entry == result.val[n]
             IN  /\ << "tract" >> \in DOMAIN entry
                 /\ entry[<< "tract" >>]
                      = (IF call.patch THEN over[n][1] ELSE over[n])
                 /\ call.patch =>
                      /\ << "patch" >> \in DOMAIN entry
                      /\ entry[<< "patch" >>] = over[n][2]

(* C19: the catalog returned by select_tract or select_box has the meas    *)
(* flag, the RA and Dec column names and the n_min of the catalog it was   *)
(* selected from.                                                          *)
C19_SubCatalogKeepsConfiguration ==
  ((Sky("select_tract") \/ Sky("select_box")) /\ result.kind = "return") =>
    /\ result.val.meas = obj.meas
    /\ result.val.ra_col = obj.ra_col
    /\ result.val.dec_col = obj.dec_col
    /\ result.val.n_min = obj.n_min

(* C20: select_tract returns the catalog of exactly the rows of the tract  *)
(* (and patch, when given), in their order, when there is such a row and   *)
(* at least n_min of them, and the catalog of no rows otherwise.           *)
C20_SelectTractAtLeastNMin ==
  Sky("select_tract") =>
    /\ result.kind = "return"
    /\ result.val.skyobjs.rows
         = (IF Len(Matching) > 0 /\ Len(Matching) >= call.n_min
            THEN Matching ELSE << >>)

(* C21: in the dictionary sum_all_filters returns, for each of the five    *)
(* bands the entries under the flux prefix are those of flux_stats, the    *)
(* entries under the snr prefix those of snr_stats and the entries under   *)
(* the mu prefix those of mu_stats.                                        *)
C21_PrefixesHoldTheirStatistics ==
  (Sky("sum_all_filters") /\ result.kind = "return") =>
    \A b \in DOMAIN FILTER_SHORT :
      LET band == FILTER_SHORT[b]
          flux_pre == call.aper.name \o << band, "flux" >>
          snr_pre == call.aper.name \o << band, "snr" >>
          mu_pre == call.aper.name \o << band, "mu" >>
          flux == flux_stats(obj, call.aper, band, flux_pre).val
          snr == snr_stats(obj, call.aper, band, snr_pre).val
          mu == mu_stats(obj, call.aper, band, mu_pre).val
      IN  /\ \A k \in DOMAIN flux :
               k \in DOMAIN result.val /\ result.val[k] = flux[k]
          /\ \A k \in DOMAIN snr :
               k \in DOMAIN result.val /\ result.val[k] = snr[k]
          /\ \A k \in DOMAIN mu :
               k \in DOMAIN result.val /\ result.val[k] = mu[k]

-----------------------------------------------------------------------------
(* task.py: hsc_cutout, called again and again with one coordinate, size   *)
(* and prefix, so that the output file of a filter is named by the filter  *)
(* and the extension.  Here obj is the disk (the state of every output     *)
(* file) with the filters of the call before, call holds the arguments     *)
(* and the local variables of the call, result the cutout_list built so    *)
(* far and then what the call returned or raised.  The archive is the      *)
(* environment: a request returns an image or raises.                      *)

\* a path is no file, a file (or a link to one), or a link to nothing
FileStates == {"absent", "file", "link"}

\* the names the archive knows (FILTER_SHORT), and one it does not
KnownFilters == {"g", "i"}

FilterArgs ==
  { << >>, << "g" >>, << "g", "i" >>, << "i", "g" >>, << "g", "g" >>,
    << "x" >> }

ImgTypes == {"coadd", "warp", "raw"}

\* '_'.join([prefix, f]) + '.fits' or '.tar'
OutputName(img_type, f) ==
  << f, IF img_type = "coadd" THEN "fits" ELSE "tar" >>

OutputNames == {OutputName(t, f) : t \in {"coadd", "warp"}, f \in KnownFilters}

\* os.path.isfile(f) or os.path.islink(f)
IsAvailable(files, name) == files[name] # "absent"

\* the test of the loop taken on the disk as it is now
UseSaved_now(c, files, ii) ==
  IsAvailable(files, OutputName(c.img_type, c.filter_list[ii])) /\ c.use_saved

\* the test of the loop: file_available[ii] and use_saved
UseSaved(c, files, ii) == c.file_available[ii] /\ c.use_saved

\* no call before, or one that is not a coadd call with save_output that
\* returned
NoCall == << "none" >>

CutInit ==
  /\ pc = "idle"
  /\ \E files \in [OutputNames -> FileStates] :
       /\ \A n \in OutputNames : n[2] = "tar" => files[n] # "link"
       /\ files[<< "i", "tar" >>] = "absent"
       /\ obj = [cls |-> "disk", files |-> files, prev |-> NoCall]
  /\ call = [op |-> "none"]
  /\ result = None

\* the filters of the call that has just ended, when it was a coadd call
\* with save_output that returned
Ended ==
  IF call.op = "hsc_cutout" /\ result.kind = "return"
     /\ call.img_type = "coadd" /\ call.save_output
  THEN call.filter_list ELSE NoCall

\* hsc_cutout up to its loop: the filters are checked, the output files
\* named and looked for
Cut_call ==
  /\ pc = "idle"
  /\ \E filters \in FilterArgs, img_type \in ImgTypes,
        use_saved \in BOOLEAN, save_output \in BOOLEAN :
       LET c == [op |-> "hsc_cutout", filter_list |-> filters,
                 img_type |-> img_type, use_saved |-> use_saved,
                 save_output |-> save_output, ii |-> 0, requests |-> << >>]
           bad == \E n \in 1..Len(filters) : filters[n] \notin KnownFilters
       IN  /\ call' = IF bad \/ img_type \notin {"coadd", "warp"} THEN c
                      ELSE [file_available |->
                              [n \in 1..Len(filters) |->
                                 IsAvailable(obj.files,
                                             OutputName(img_type, filters[n]))]]
                           @@ c
           /\ result' = IF bad THEN Raise("AssertionError")
                        ELSE IF img_type \notin {"coadd", "warp"}
                        THEN Raise("Exception")
                        ELSE Partial(<< >>)
           /\ pc' = IF bad \/ img_type \notin {"coadd", "warp"}
                    THEN "idle" ELSE "loop"
  /\ obj' = [obj EXCEPT !.prev = Ended]

\* the next filter, its file being there and use_saved set: the file is
\* opened (coadd), or the call gives up (warp)
Cut_saved ==
  /\ pc = "loop" /\ call.ii < Len(call.filter_list)
  /\ UseSaved(call, obj.files, call.ii + 1)
  /\ LET filt == call.filter_list[call.ii + 1]
         opened == obj.files[OutputName(call.img_type, filt)] = "file"
     IN  /\ call' = [call EXCEPT !.ii = @ + 1]
         /\ IF call.img_type = "coadd" /\ opened
            THEN /\ result' = Partial(result.val
                                \o << [hdu |-> "saved", filt |-> filt] >>)
                 /\ pc' = "loop"
            ELSE /\ result' = IF call.img_type = "coadd"
                              THEN Raise("FileNotFoundError")
                              ELSE Raise("NotImplementedError")
                 /\ pc' = "idle"
  /\ UNCHANGED obj

\* the next filter, otherwise: the archive is asked; the image is written
\* to the output file (coadd with save_output), the tarball moved to it
\* (warp).  The request can fail, and so can writing through a link to
\* nothing
Cut_retrieve ==
  /\ pc = "loop" /\ call.ii < Len(call.filter_list)
  /\ ~UseSaved(call, obj.files, call.ii + 1)
  /\ \E answered \in BOOLEAN, written \in BOOLEAN :
       LET filt == call.filter_list[call.ii + 1]
           name == OutputName(call.img_type, filt)
           writes == call.img_type = "warp" \/ call.save_output
           fails == writes /\ (obj.files[name] = "link" \/ call.img_type = "warp")
                      /\ ~written
       IN  /\ (~writes \/ ~answered
                 \/ (obj.files[name] # "link" /\ call.img_type # "warp"))
                => written
           /\ call' = [call EXCEPT !.ii = @ + 1,
                                   !.requests = @ \o << filt >>]
           /\ result' =
                IF ~answered THEN Raise("HTTPError")
                ELSE IF fails THEN Raise("OSError")
                ELSE Partial(result.val
                       \o << [hdu |-> IF call.img_type = "coadd"
                                      THEN "retrieved" ELSE "url",
                              filt |-> filt] >>)
           /\ pc' = IF answered /\ ~fails THEN "loop" ELSE "idle"
           /\ obj' = IF answered /\ writes /\ ~fails
                     THEN [obj EXCEPT !.files[name] = "file"]
                     ELSE obj

\* after the loop: one cutout is returned as it is, more as the list
Cut_return ==
  /\ pc = "loop" /\ call.ii = Len(call.filter_list)
  /\ result' = IF Len(call.filter_list) = 1 THEN Return(result.val[1])
               ELSE Return(result.val)
  /\ pc' = "idle"
  /\ UNCHANGED << obj, call >>

CutNext ==
  \/ Cut_call
  \/ Cut_saved
  \/ Cut_retrieve
  \/ Cut_return

CutSpec == CutInit /\ [][CutNext]_vars

\* the filters among the first n of the call that had to be asked of the
\* archive: those whose file was not there when the call began, or all of
\* them without use_saved
RECURSIVE Asked(_)
Asked(n) ==
  IF n = 0 THEN << >>
  ELSE Asked(n - 1)
         \o (IF call.use_saved /\ call.file_available[n] THEN << >>
             ELSE << call.filter_list[n] >>)

\* a coadd call of hsc_cutout that got to its loop
InCoadd ==
  /\ call.op = "hsc_cutout" /\ call.img_type = "coadd"
  /\ "file_available" \in DOMAIN call

(* C22: a coadd call of hsc_cutout asks the archive for a filter exactly   *)
(* when not (use_saved and the filter's file was there when the call       *)
(* began); with save_output, when it returns, the file of every filter it  *)
(* asked for is there; a call with use_saved that follows a returned coadd *)
(* call with save_output of the same filters asks the archive for nothing; *)
(* a returned call gives one cutout per filter in the order of filters, a  *)
(* single one as it is.                                                    *)
C22_CutoutCaching ==
  InCoadd =>
    /\ call.requests = Asked(call.ii)
    /\ (call.use_saved /\ obj.prev = call.filter_list) => call.requests = << >>
    /\ (pc = "idle" /\ result.kind = "return") =>
         /\ call.ii = Len(call.filter_list)
         /\ call.save_output =>
              \A n \in 1..Len(call.requests) :
                obj.files[OutputName("coadd", call.requests[n])] = "file"
         /\ IF Len(call.filter_list) = 1
            THEN result.val.filt = call.filter_list[1]
            ELSE /\ Len(result.val) = Len(call.filter_list)
                 /\ \A n \in 1..Len(result.val) :
                      result.val[n].filt = call.filter_list[n]

\* the call after a returned coadd call with save_output of the same two
\* filters has returned both cutouts from their files
C22_Witness ==
  /\ InCoadd /\ pc = "idle" /\ result.kind = "return"
  /\ call.use_saved /\ obj.prev = call.filter_list
  /\ Len(call.filter_list) = 2 /\ call.filter_list[1] # call.filter_list[2]
  /\ call.requests = << >>
  /\ \A n \in 1..2 : result.val[n].hdu = "saved"

====
